---- MODULE Spec2Model ----
(***************************************************************************)
(* TensorHelper of search_r1/llm_agent/tensor_helper.py: the batch-tensor  *)
(* alignment helpers of the multi-turn agent loop.                         *)
(*                                                                         *)
(* A 2-D tensor is a record [shape |-> <<rows, cols>>, data |-> d] with    *)
(* d[r][c] the cell of row r and column c (1-based in the model; an index  *)
(* tensor such as sorted_indices holds the 0-based column numbers that     *)
(* torch holds).  The shape is kept beside the data because a tensor of 0  *)
(* rows still has a column count (responses.shape[1], t.size(1)).          *)
(*                                                                         *)
(* Every method is a pure function of the configuration and its arguments. *)
(* A behaviour is one call: Init draws the configuration and the arguments *)
(* (pc = "call"), and the method's action leaves the returned value in ret *)
(* (pc = "done") or the exception's name (pc = "raised").                  *)
(***************************************************************************)
EXTENDS Integers, Sequences, FiniteSets, TLC

\* ------------------------------------------------------------------ bounds
\* Rows and columns of the token batches of convert_pad_structure and (for the
\* concatenated batch) of concatenate_with_padding.
MaxRows == 1
MaxLen == 3
\* Batch size and per-tensor sequence length of cut_to_effective_len,
\* _example_level_pad and _turn_level_pad_and_concatenate.
MaxBatch == 2
MaxSeq == 2
\* Length of the tensor lists.
MaxTensors == 2

\* Token ids: whichever of PadIds is configured, two ids are left for real tokens.
Tokens == 0..2
\* Token ids of the batches whose cells are only copied (_example_level_pad,
\* _turn_level_pad_and_concatenate): the pad id and one real token.
BinTokens == 0..1
\* The values of config.pad_token_id.
PadIds == {0, 1}
\* The decoded responses.
Strings == {"x", "y"}

VARIABLES pc, op, config, args, ret
vars == <<pc, op, config, args, ret>>

\* ------------------------------------------------------------ tensor basics
Min(a, b) == IF a < b THEN a ELSE b
Max(a, b) == IF a > b THEN a ELSE b

RECURSIVE Sum(_)
Sum(s) == IF s = <<>> THEN 0 ELSE Head(s) + Sum(Tail(s))

SetMax(S) == CHOOSE m \in S : \A x \in S : x <= m

\* Tensor(b, l, f): the b x l tensor whose cell (r, c) is f[r][c].
Tensor(b, l, d) == [shape |-> <<b, l>>, data |-> [r \in 1..b |-> [c \in 1..l |-> d[r][c]]]]

\* torch.full(shape, fill_value) / Tensor.new_full
full(b, l, fill_value) == [shape |-> <<b, l>>, data |-> [r \in 1..b |-> [c \in 1..l |-> fill_value]]]

\* The tensors with b rows and l columns over vals, and those up to a size.
TensorsOfShape(b, l, vals) == { [shape |-> <<b, l>>, data |-> d] : d \in [1..b -> [1..l -> vals]] }
Tensors(maxRows, maxLen, vals) ==
    UNION { TensorsOfShape(b, l, vals) : b \in 0..maxRows, l \in 0..maxLen }

\* A list of tensors of the shapes sh (a sequence of <<rows, cols>>), its cells
\* given by one function of (tensor, row, column).
Cells(sh) ==
    UNION { { <<i, r, c>> : r \in 1..sh[i][1], c \in 1..sh[i][2] } : i \in 1..Len(sh) }
TensorList(sh, cells) ==
    [i \in 1..Len(sh) |->
        Tensor(sh[i][1], sh[i][2],
               [r \in 1..sh[i][1] |-> [c \in 1..sh[i][2] |-> cells[<<i, r, c>>]]])]

\* A call's outcome: a returned value, or the exception raised.
Returns(v) == [exc |-> "", val |-> v]
Raises(e) == [exc |-> e, val |-> <<>>]

Configs == [pad_token_id : PadIds]

\* ------------------------------------------------- convert_pad_structure
\* A mutant of argsort: ties are broken by the larger index first (an unstable sort).
argsort_unstable(keys) ==
    LET n == Len(keys)
        rank(i) == Cardinality({j \in 1..n : keys[j] < keys[i] \/ (keys[j] = keys[i] /\ j > i)})
    IN [c \in 1..n |-> (CHOOSE i \in 1..n : rank(i) = c - 1) - 1]

\* A mutant of argsort: the keys are sorted in descending order.
argsort_descending(keys) ==
    LET n == Len(keys)
        rank(i) == Cardinality({j \in 1..n : keys[j] > keys[i] \/ (keys[j] = keys[i] /\ j < i)})
    IN [c \in 1..n |-> (CHOOSE i \in 1..n : rank(i) = c - 1) - 1]

\* Tensor.argsort(dim=1, stable=True) of one row: the 0-based column numbers in
\* ascending order of their keys, equal keys in their original order.
argsort(keys) ==
    LET n == Len(keys)
        rank(i) == Cardinality({j \in 1..n : keys[j] < keys[i] \/ (keys[j] = keys[i] /\ j < i)})
    IN [c \in 1..n |-> (CHOOSE i \in 1..n : rank(i) = c - 1) - 1]

\* Tensor.gather(1, index): out[r][c] = tensor[r][index[r][c]].
gather(tensor, index) ==
    Tensor(index.shape[1], index.shape[2],
           [r \in 1..index.shape[1] |-> [c \in 1..index.shape[2] |->
               tensor.data[r][index.data[r][c] + 1]]])

\* A mutant of convert_pad_structure: the pad_to_left flag is ignored.
convert_pad_structure_ignores_flag(self, tensor, pad_to_left) ==
    LET mask == Tensor(tensor.shape[1], tensor.shape[2],
                    [r \in 1..tensor.shape[1] |-> [c \in 1..tensor.shape[2] |->
                        IF tensor.data[r][c] # self.pad_token_id THEN 1 ELSE 0]])
        sorted_indices == Tensor(tensor.shape[1], tensor.shape[2],
                    [r \in 1..tensor.shape[1] |-> argsort(mask.data[r])])
    IN <<gather(tensor, sorted_indices), sorted_indices>>

\* convert_pad_structure returns <<sorted tensor, sorted_indices>>.
convert_pad_structure(self, tensor, pad_to_left) ==
    LET mask == Tensor(tensor.shape[1], tensor.shape[2],
                    [r \in 1..tensor.shape[1] |-> [c \in 1..tensor.shape[2] |->
                        IF pad_to_left
                        THEN (IF tensor.data[r][c] # self.pad_token_id THEN 1 ELSE 0)
                        ELSE (IF tensor.data[r][c] = self.pad_token_id THEN 1 ELSE 0)]])
        sorted_indices == Tensor(tensor.shape[1], tensor.shape[2],
                    [r \in 1..tensor.shape[1] |-> argsort(mask.data[r])])
    IN <<gather(tensor, sorted_indices), sorted_indices>>

InitConvert ==
    /\ pc = "call"
    /\ op = "convert_pad_structure"
    /\ config \in Configs
    /\ args \in [tensor : Tensors(MaxRows, MaxLen, Tokens), pad_to_left : BOOLEAN]
    /\ ret = <<>>

ConvertPadStructure ==
    /\ pc = "call"
    /\ op = "convert_pad_structure"
    /\ ret' = convert_pad_structure(config, args.tensor, args.pad_to_left)
    /\ pc' = "done"
    /\ UNCHANGED <<op, config, args>>

NextConvert == ConvertPadStructure
SpecConvert == InitConvert /\ [][NextConvert]_vars

\* ---------------------------------------------------- create_position_ids
\* torch.cumsum(t, dim=1): the inclusive running sum along each row.
cumsum(t) ==
    Tensor(t.shape[1], t.shape[2],
           [r \in 1..t.shape[1] |-> [c \in 1..t.shape[2] |-> Sum(SubSeq(t.data[r], 1, c))]])

\* A mutant of create_position_ids: the product with the mask is left out.
create_position_ids_unmasked(self, attention_mask) ==
    Tensor(attention_mask.shape[1], attention_mask.shape[2],
           [r \in 1..attention_mask.shape[1] |-> [c \in 1..attention_mask.shape[2] |->
               cumsum(attention_mask).data[r][c] - 1]])

\* (torch.cumsum(attention_mask, dim=1) - 1) * attention_mask
create_position_ids(self, attention_mask) ==
    Tensor(attention_mask.shape[1], attention_mask.shape[2],
           [r \in 1..attention_mask.shape[1] |-> [c \in 1..attention_mask.shape[2] |->
               (cumsum(attention_mask).data[r][c] - 1) * attention_mask.data[r][c]]])

InitPositionIds ==
    /\ pc = "call"
    /\ op = "create_position_ids"
    /\ config \in Configs
    /\ args \in [attention_mask : Tensors(MaxBatch, MaxLen, 0..1)]
    /\ ret = <<>>

CreatePositionIds ==
    /\ pc = "call"
    /\ op = "create_position_ids"
    /\ ret' = create_position_ids(config, args.attention_mask)
    /\ pc' = "done"
    /\ UNCHANGED <<op, config, args>>

NextPositionIds == CreatePositionIds
SpecPositionIds == InitPositionIds /\ [][NextPositionIds]_vars

\* ----------------------------------------------- concatenate_with_padding
\* torch.cat(tensors, dim=1): the columns of the tensors side by side, in list
\* order.  It raises on an empty list and on tensors of different row counts.
RECURSIVE CatRow(_, _)
CatRow(tensors, r) ==
    IF tensors = <<>> THEN <<>> ELSE Head(tensors).data[r] \o CatRow(Tail(tensors), r)

cat(tensors) ==
    IF tensors = <<>> \/ \E i \in 1..Len(tensors) : tensors[i].shape[1] # tensors[1].shape[1]
    THEN Raises("RuntimeError")
    ELSE Returns(Tensor(tensors[1].shape[1],
                        Sum([i \in 1..Len(tensors) |-> tensors[i].shape[2]]),
                        [r \in 1..tensors[1].shape[1] |-> CatRow(tensors, r)]))

\* A mutant of concatenate_with_padding: the concatenation is returned as it is.
concatenate_without_repadding(self, tensors, pad_to_left) ==
    cat(tensors)

concatenate_with_padding(self, tensors, pad_to_left) ==
    LET concatenated == cat(tensors)
    IN IF concatenated.exc # "" THEN concatenated
       ELSE Returns(convert_pad_structure(self, concatenated.val, pad_to_left)[1])

\* The lists of n tensors of b rows each whose widths (each at least 1) add up
\* to at most MaxLen.
CatWidths(n) == { ws \in [1..n -> 1..MaxLen] : Sum(ws) <= MaxLen }

InitConcatenate ==
    /\ pc = "call"
    /\ op = "concatenate_with_padding"
    /\ \E n \in 0..MaxTensors, b \in 0..MaxRows :
         \E ws \in CatWidths(n) :
            \E cells \in [Cells([i \in 1..n |-> <<b, ws[i]>>]) -> Tokens],
               pad_to_left \in BOOLEAN :
               args = [tensors |-> TensorList([i \in 1..n |-> <<b, ws[i]>>], cells),
                       pad_to_left |-> pad_to_left]
    /\ config \in Configs
    /\ ret = <<>>

ConcatenateWithPadding ==
    /\ pc = "call"
    /\ op = "concatenate_with_padding"
    /\ LET r == concatenate_with_padding(config, args.tensors, args.pad_to_left)
       IN /\ ret' = IF r.exc = "" THEN r.val ELSE r.exc
          /\ pc' = IF r.exc = "" THEN "done" ELSE "raised"
    /\ UNCHANGED <<op, config, args>>

NextConcatenate == ConcatenateWithPadding
SpecConcatenate == InitConcatenate /\ [][NextConcatenate]_vars

\* -------------------------------------------------- cut_to_effective_len
\* Python's slice bound: a negative index counts from the end, and a bound
\* outside 0..n is clamped.  -0 is 0.
ClampIndex(i, n) == IF i < 0 THEN Max(i + n, 0) ELSE Min(i, n)

\* tensor[:, start:stop], the bounds as Python integers (0-based, stop excluded).
SliceCols(tensor, start, stop) ==
    LET n == tensor.shape[2]
        lo == ClampIndex(start, n)
        hi == ClampIndex(stop, n)
        w == Max(hi - lo, 0)
    IN Tensor(tensor.shape[1], w,
              [r \in 1..tensor.shape[1] |-> [c \in 1..w |-> tensor.data[r][lo + c]]])

\* tensor.sum(dim=1).max(); max() of an empty tensor raises.
SumMax(tensor) ==
    IF tensor.shape[1] = 0 THEN Raises("RuntimeError")
    ELSE Returns(SetMax({Sum(tensor.data[r]) : r \in 1..tensor.shape[1]}))

InKeys(key, keys) == \E i \in 1..Len(keys) : keys[i] = key

\* A mutant of cut_to_effective_len: a named array whose sequence dimension is
\* not the mask's is rejected.
cut_to_effective_len_checked(self, tensor_dict, keys, cut_left) ==
    LET effective_len == SumMax(tensor_dict["attention_mask"])
    IN IF effective_len.exc # "" THEN effective_len
       ELSE IF \E i \in 1..Len(keys) :
                  tensor_dict[keys[i]].shape[2] # tensor_dict["attention_mask"].shape[2]
       THEN Raises("RuntimeError")
       ELSE Returns([key \in DOMAIN tensor_dict |->
              IF InKeys(key, keys)
              THEN IF cut_left
                   THEN SliceCols(tensor_dict[key], -effective_len.val, tensor_dict[key].shape[2])
                   ELSE SliceCols(tensor_dict[key], 0, effective_len.val)
              ELSE tensor_dict[key]])

cut_to_effective_len(self, tensor_dict, keys, cut_left) ==
    LET effective_len == SumMax(tensor_dict["attention_mask"])
    IN IF effective_len.exc # "" THEN effective_len
       ELSE Returns([key \in DOMAIN tensor_dict |->
              IF InKeys(key, keys)
              THEN IF cut_left
                   THEN SliceCols(tensor_dict[key], -effective_len.val, tensor_dict[key].shape[2])
                   ELSE SliceCols(tensor_dict[key], 0, effective_len.val)
              ELSE tensor_dict[key]])

\* A batch whose every cell holds its own 0-based column number, so that the
\* columns a slice keeps can be told from those it drops.
ColumnTagged(b, w) == Tensor(b, w, [r \in 1..b |-> [c \in 1..w |-> c - 1]])

KeyLists == {<<"attention_mask">>, <<"input_ids">>, <<"input_ids", "attention_mask">>}

\* tensor_dict holds the attention mask and input_ids, of the same batch size
\* and of any width, the mask's or not.
InitCut ==
    /\ pc = "call"
    /\ op = "cut_to_effective_len"
    /\ config \in Configs
    /\ \E attention_mask \in Tensors(MaxBatch, MaxSeq, 0..1), w \in 0..MaxSeq,
          keys \in KeyLists, cut_left \in BOOLEAN :
         args = [tensor_dict |-> [attention_mask |-> attention_mask,
                                  input_ids |-> ColumnTagged(attention_mask.shape[1], w)],
                 keys |-> keys, cut_left |-> cut_left]
    /\ ret = <<>>

CutToEffectiveLen ==
    /\ pc = "call"
    /\ op = "cut_to_effective_len"
    /\ LET r == cut_to_effective_len(config, args.tensor_dict, args.keys, args.cut_left)
       IN /\ ret' = IF r.exc = "" THEN r.val ELSE r.exc
          /\ pc' = IF r.exc = "" THEN "done" ELSE "raised"
    /\ UNCHANGED <<op, config, args>>

NextCut == CutToEffectiveLen
SpecCut == InitCut /\ [][NextCut]_vars

\* ---------------------------------------------------- _example_level_pad
\* active_mask.sum(): the number of True entries.
CountTrue(active_mask) == Cardinality({i \in 1..Len(active_mask) : active_mask[i]})

\* padded[active_mask] = responses: the rows at the True positions, taken in
\* ascending order, receive the rows of responses in order.
MaskedAssign(padded, active_mask, responses) ==
    Tensor(padded.shape[1], padded.shape[2],
           [i \in 1..padded.shape[1] |->
               IF active_mask[i]
               THEN responses.data[CountTrue(SubSeq(active_mask, 1, i))]
               ELSE padded.data[i]])

\* The loop of lines 69-73 from index i on (1-based here), s the cursor into
\* responses_str (0-based, as in the code).
RECURSIVE StrLoop(_, _, _, _, _)
StrLoop(i, s, padded_responses_str, responses_str, active_mask) ==
    IF i > Len(active_mask) THEN Returns(padded_responses_str)
    ELSE IF active_mask[i]
         THEN IF s >= Len(responses_str) THEN Raises("IndexError")
              ELSE StrLoop(i + 1, s + 1,
                           [padded_responses_str EXCEPT ![i] = responses_str[s + 1]],
                           responses_str, active_mask)
         ELSE StrLoop(i + 1, s, padded_responses_str, responses_str, active_mask)

\* A mutant of _example_level_pad: the active rows and strings are consumed from
\* the last one backwards.
example_level_pad_backwards(self, responses, responses_str, active_mask) ==
    IF CountTrue(active_mask) # responses.shape[1] THEN Raises("AssertionError")
    ELSE LET batch_size == Len(active_mask)
             k == responses.shape[1]
             src(i) == k + 1 - CountTrue(SubSeq(active_mask, 1, i))
         IN Returns(<<
              Tensor(batch_size, responses.shape[2],
                     [i \in 1..batch_size |->
                        IF active_mask[i] THEN responses.data[src(i)]
                        ELSE [c \in 1..responses.shape[2] |-> self.pad_token_id]]),
              [i \in 1..batch_size |-> IF active_mask[i] THEN responses_str[src(i)] ELSE ""]>>)

\* _example_level_pad returns <<padded_responses, padded_responses_str>>.
_example_level_pad(self, responses, responses_str, active_mask) ==
    IF CountTrue(active_mask) # responses.shape[1] THEN Raises("AssertionError")
    ELSE LET batch_size == Len(active_mask)
             seq_len == responses.shape[2]
             padded_responses ==
                 MaskedAssign(full(batch_size, seq_len, self.pad_token_id),
                              active_mask, responses)
             padded_responses_str ==
                 StrLoop(1, 0, [i \in 1..batch_size |-> ""], responses_str, active_mask)
         IN IF padded_responses_str.exc # "" THEN padded_responses_str
            ELSE Returns(<<padded_responses, padded_responses_str.val>>)

\* responses_str holds one string per row of responses (the decoded rows); the
\* active mask is drawn freely, so its True count may differ from the row count.
InitExamplePad ==
    /\ pc = "call"
    /\ op = "_example_level_pad"
    /\ config \in Configs
    /\ \E batch_size \in 0..MaxBatch, responses \in Tensors(MaxBatch, MaxSeq, BinTokens) :
         \E active_mask \in [1..batch_size -> BOOLEAN],
            responses_str \in [1..responses.shape[1] -> Strings] :
            args = [responses |-> responses, responses_str |-> responses_str,
                    active_mask |-> active_mask]
    /\ ret = <<>>

ExampleLevelPad ==
    /\ pc = "call"
    /\ op = "_example_level_pad"
    /\ LET r == _example_level_pad(config, args.responses, args.responses_str,
                                   args.active_mask)
       IN /\ ret' = IF r.exc = "" THEN r.val ELSE r.exc
          /\ pc' = IF r.exc = "" THEN "done" ELSE "raised"
    /\ UNCHANGED <<op, config, args>>

NextExamplePad == ExampleLevelPad
SpecExamplePad == InitExamplePad /\ [][NextExamplePad]_vars

\* ------------------------------------- _turn_level_pad_and_concatenate
\* batch[b_start:b_start + b, start:start + L] = t (0-based bounds, as in the code).
AssignBlock(batch, b_start, b, start, L, t) ==
    Tensor(batch.shape[1], batch.shape[2],
           [r \in 1..batch.shape[1] |-> [c \in 1..batch.shape[2] |->
               IF r > b_start /\ r <= b_start + b /\ c > start /\ c <= start + L
               THEN t.data[r - b_start][c - start]
               ELSE batch.data[r][c]]])

\* A mutant of CopyLoop: every block starts at column 0.
RECURSIVE CopyLoopLeftOnly(_, _, _, _, _)
CopyLoopLeftOnly(i, b_start, batch, tensors, pad_to_left) ==
    IF i > Len(tensors) THEN batch
    ELSE LET t == tensors[i]
         IN CopyLoopLeftOnly(i + 1, b_start + t.shape[1],
                             AssignBlock(batch, b_start, t.shape[1], 0, t.shape[2], t),
                             tensors, pad_to_left)

\* The loop of lines 96-104 from the i-th tensor on; batch.shape[2] is L_max.
RECURSIVE CopyLoop(_, _, _, _, _)
CopyLoop(i, b_start, batch, tensors, pad_to_left) ==
    IF i > Len(tensors) THEN batch
    ELSE LET t == tensors[i]
             b == t.shape[1]
             L == t.shape[2]
             start == IF pad_to_left THEN batch.shape[2] - L ELSE 0
         IN CopyLoop(i + 1, b_start + b,
                     AssignBlock(batch, b_start, b, start, L, t),
                     tensors, pad_to_left)

_turn_level_pad_and_concatenate(self, tensors, pad_to_left) ==
    IF tensors = <<>> THEN Raises("IndexError")
    ELSE LET bs == [i \in 1..Len(tensors) |-> tensors[i].shape[1]]
             lengths == [i \in 1..Len(tensors) |-> tensors[i].shape[2]]
             L_max == SetMax({lengths[i] : i \in 1..Len(tensors)})
             n == Sum(bs)
             batch == full(n, L_max, self.pad_token_id)
         IN Returns(CopyLoop(1, 0, batch, tensors, pad_to_left))

\* The shapes of n tensors, of at most MaxSeq columns each, with at most
\* MaxBatch rows in all.
TurnShapes(n) ==
    { sh \in [1..n -> (0..MaxBatch) \X (0..MaxSeq)] :
        Sum([i \in 1..n |-> sh[i][1]]) <= MaxBatch }

InitTurnPad ==
    /\ pc = "call"
    /\ op = "_turn_level_pad_and_concatenate"
    /\ \E n \in 0..MaxTensors :
         \E sh \in TurnShapes(n) :
            \E cells \in [Cells(sh) -> BinTokens], pad_to_left \in BOOLEAN :
               args = [tensors |-> TensorList(sh, cells), pad_to_left |-> pad_to_left]
    /\ config \in Configs
    /\ ret = <<>>

TurnLevelPadAndConcatenate ==
    /\ pc = "call"
    /\ op = "_turn_level_pad_and_concatenate"
    /\ LET r == _turn_level_pad_and_concatenate(config, args.tensors, args.pad_to_left)
       IN /\ ret' = IF r.exc = "" THEN r.val ELSE r.exc
          /\ pc' = IF r.exc = "" THEN "done" ELSE "raised"
    /\ UNCHANGED <<op, config, args>>

NextTurnPad == TurnLevelPadAndConcatenate
SpecTurnPad == InitTurnPad /\ [][NextTurnPad]_vars

\* ------------------------------------------------------- the whole helper
Init ==
    \/ InitCut
    \/ InitConvert
    \/ InitPositionIds
    \/ InitConcatenate
    \/ InitExamplePad
    \/ InitTurnPad

Next ==
    \/ CutToEffectiveLen
    \/ ConvertPadStructure
    \/ CreatePositionIds
    \/ ConcatenateWithPadding
    \/ ExampleLevelPad
    \/ TurnLevelPadAndConcatenate

Spec == Init /\ [][Next]_vars

\* ================================================================ claims
IsPad(v) == v = config.pad_token_id

\* The real (non-pad) tokens of a row, in order.
RECURSIVE Reals(_)
Reals(row) ==
    IF row = <<>> THEN <<>>
    ELSE IF IsPad(Head(row)) THEN Reals(Tail(row)) ELSE <<Head(row)>> \o Reals(Tail(row))

Pads(n) == [c \in 1..n |-> config.pad_token_id]

\* Every pad of the row is left of every real token / right of every real token.
PadLeftRow(row) == \A j, k \in 1..Len(row) : (j < k /\ IsPad(row[k])) => IsPad(row[j])
PadRightRow(row) == \A j, k \in 1..Len(row) : (j < k /\ IsPad(row[j])) => IsPad(row[k])
PadLeft(t) == \A r \in 1..t.shape[1] : PadLeftRow(t.data[r])
PadRight(t) == \A r \in 1..t.shape[1] : PadRightRow(t.data[r])

ConvertDone == op = "convert_pad_structure" /\ pc = "done"

\* C1: convert_pad_structure(x, pad_to_left) returns (y, perm) where, in every
\* row, perm is a permutation of the column indices 0..L-1, y[j] = x[perm[j]],
\* the pads come before the real tokens when pad_to_left (after them
\* otherwise), and cells of the same class keep their original relative order.
C1_StablePermutation ==
    ConvertDone =>
        LET x == args.tensor
            y == ret[1]
            perm == ret[2]
            L == x.shape[2]
        IN /\ y.shape = x.shape
           /\ perm.shape = x.shape
           /\ \A r \in 1..x.shape[1] :
                /\ DOMAIN perm.data[r] = 1..L
                /\ {perm.data[r][j] : j \in 1..L} = 0..(L - 1)
                /\ \A j \in 1..L : y.data[r][j] = x.data[r][perm.data[r][j] + 1]
                /\ IF args.pad_to_left THEN PadLeftRow(y.data[r]) ELSE PadRightRow(y.data[r])
                /\ \A j, k \in 1..L :
                     (j < k /\ (IsPad(y.data[r][j]) <=> IsPad(y.data[r][k])))
                        => perm.data[r][j] < perm.data[r][k]

\* A pad between two different real tokens is moved to the left edge.
C1_Witness ==
    /\ ConvertDone
    /\ args.pad_to_left
    /\ args.tensor.shape = <<1, 3>>
    /\ ~IsPad(args.tensor.data[1][1])
    /\ IsPad(args.tensor.data[1][2])
    /\ ~IsPad(args.tensor.data[1][3])
    /\ args.tensor.data[1][1] # args.tensor.data[1][3]
    /\ ret[2].data[1] = <<1, 0, 2>>

\* C9: on an array whose pads are already contiguous at the requested side,
\* convert_pad_structure returns the identical array and, in every row, the
\* identity permutation (0, 1, ..., L-1).
C9_IdempotentOnAligned ==
    (/\ ConvertDone
     /\ IF args.pad_to_left THEN PadLeft(args.tensor) ELSE PadRight(args.tensor))
    => /\ ret[1] = args.tensor
       /\ \A r \in 1..args.tensor.shape[1] :
            ret[2].data[r] = [c \in 1..args.tensor.shape[2] |-> c - 1]

\* A pad-left row holding a pad and two real tokens, converted to pad-left.
C9_Witness ==
    /\ ConvertDone
    /\ args.pad_to_left
    /\ args.tensor.shape = <<1, 3>>
    /\ IsPad(args.tensor.data[1][1])
    /\ ~IsPad(args.tensor.data[1][2])
    /\ ~IsPad(args.tensor.data[1][3])
    /\ ret[1] = args.tensor

\* C10: a pad-left array x converted to pad-right and then back to pad-left is
\* x again; the intermediate array is pad-right, and in it and in the final
\* array the real tokens of each row are those of x in the same order.
C10_RoundTrip ==
    (ConvertDone /\ ~args.pad_to_left /\ PadLeft(args.tensor))
    => LET x == args.tensor
           mid == ret[1]
           back == convert_pad_structure(config, mid, TRUE)[1]
       IN /\ back = x
          /\ PadRight(mid)
          /\ \A r \in 1..x.shape[1] :
               /\ Reals(mid.data[r]) = Reals(x.data[r])
               /\ Reals(back.data[r]) = Reals(x.data[r])

\* The pad block of (pad, a, b), a # b, has moved to the right edge.
C10_Witness ==
    /\ ConvertDone
    /\ ~args.pad_to_left
    /\ args.tensor.shape = <<1, 3>>
    /\ IsPad(args.tensor.data[1][1])
    /\ ~IsPad(args.tensor.data[1][2])
    /\ ~IsPad(args.tensor.data[1][3])
    /\ args.tensor.data[1][2] # args.tensor.data[1][3]
    /\ ret[1].data[1] = <<args.tensor.data[1][2], args.tensor.data[1][3], config.pad_token_id>>

\* C7: create_position_ids returns an array of the mask's shape that is 0
\* where the mask is 0 and k at the k-th (0-indexed, left to right) 1 of the
\* row; every value is >= 0.
C7_PositionIds ==
    (op = "create_position_ids" /\ pc = "done")
    => LET m == args.attention_mask
       IN /\ ret.shape = m.shape
          /\ \A r \in 1..m.shape[1] :
               /\ DOMAIN ret.data[r] = 1..m.shape[2]
               /\ \A c \in 1..m.shape[2] :
                    /\ ret.data[r][c] >= 0
                    /\ m.data[r][c] = 0 => ret.data[r][c] = 0
                    /\ m.data[r][c] = 1 =>
                         ret.data[r][c] = Cardinality({d \in 1..(c - 1) : m.data[r][d] = 1})

\* A zero between two ones: the zero reads 0, not the count carried so far,
\* and the second one reads 1.
C7_Witness ==
    /\ op = "create_position_ids"
    /\ pc = "done"
    /\ args.attention_mask.shape[1] >= 1
    /\ args.attention_mask.data[1] = <<1, 0, 1>>
    /\ ret.data[1] = <<0, 0, 1>>

\* C8: for a non-empty list of arrays of equal row counts,
\* concatenate_with_padding returns an array as wide as the inputs together
\* whose every row is, for pad_to_left, all the pads followed by the real
\* tokens of the inputs in the order of the column-wise concatenation (and
\* the real tokens followed by the pads otherwise): no pad is left between
\* two real tokens.
C8_ConcatenateRepadded ==
    (op = "concatenate_with_padding" /\ pc # "call" /\ args.tensors # <<>>)
    => /\ pc = "done"
       /\ LET b == args.tensors[1].shape[1]
              w == Sum([i \in 1..Len(args.tensors) |-> args.tensors[i].shape[2]])
          IN /\ ret.shape = <<b, w>>
             /\ \A r \in 1..b :
                  LET reals == Reals(CatRow(args.tensors, r))
                      pads == Pads(w - Len(reals))
                  IN ret.data[r] = IF args.pad_to_left THEN pads \o reals ELSE reals \o pads

\* (a, pad) followed by (b), a # b: the pad stranded in the middle is moved to
\* the left edge and a stays before b.
C8_Witness ==
    /\ op = "concatenate_with_padding"
    /\ pc = "done"
    /\ args.pad_to_left
    /\ Len(args.tensors) = 2
    /\ args.tensors[1].shape = <<1, 2>>
    /\ args.tensors[2].shape = <<1, 1>>
    /\ ~IsPad(args.tensors[1].data[1][1])
    /\ IsPad(args.tensors[1].data[1][2])
    /\ ~IsPad(args.tensors[2].data[1][1])
    /\ args.tensors[1].data[1][1] # args.tensors[2].data[1][1]
    /\ ret.data[1] = <<config.pad_token_id, args.tensors[1].data[1][1],
                       args.tensors[2].data[1][1]>>

\* C2: when the active mask (length B) has as many True entries as the active
\* tensor has rows and the string list has strings, _example_level_pad returns
\* a B-row tensor and a B-element string list where the i-th True position
\* holds the i-th active row and the i-th active string, and every False
\* position holds an all-pad row and the empty string.  With a different
\* number of True entries the call is rejected.
C2_ExampleLevelPad ==
    (op = "_example_level_pad" /\ pc # "call")
    => LET mask == args.active_mask
           B == Len(mask)
           k == Cardinality({i \in 1..B : mask[i]})
           nth(i) == Cardinality({j \in 1..i : mask[j]})
       IN IF k = args.responses.shape[1] /\ k = Len(args.responses_str)
          THEN /\ pc = "done"
               /\ ret[1].shape = <<B, args.responses.shape[2]>>
               /\ DOMAIN ret[1].data = 1..B
               /\ DOMAIN ret[2] = 1..B
               /\ \A i \in 1..B :
                    IF mask[i]
                    THEN /\ ret[1].data[i] = args.responses.data[nth(i)]
                         /\ ret[2][i] = args.responses_str[nth(i)]
                    ELSE /\ ret[1].data[i] = Pads(args.responses.shape[2])
                         /\ ret[2][i] = ""
          ELSE pc = "raised" /\ ret = "AssertionError"

\* An inactive row before an active one: the all-pad row and the empty string
\* come first, the only active row and string second.
C2_Witness ==
    /\ op = "_example_level_pad"
    /\ pc = "done"
    /\ args.active_mask = <<FALSE, TRUE>>
    /\ args.responses.shape = <<1, 2>>
    /\ ~IsPad(args.responses.data[1][1])
    /\ args.responses_str = <<"y">>
    /\ ret[1].data = <<Pads(2), args.responses.data[1]>>
    /\ ret[2] = <<"", "y">>

CutReturned == op = "cut_to_effective_len" /\ pc # "call"
CutMask == args.tensor_dict["attention_mask"]
\* The maximum over the rows of the count of mask = 1 (of a non-empty batch).
CutEffectiveLen ==
    SetMax({Cardinality({c \in 1..CutMask.shape[2] : CutMask.data[r][c] = 1}) :
            r \in 1..CutMask.shape[1]})
CutKeys == {args.keys[i] : i \in 1..Len(args.keys)}
\* The mask's zeros are contiguous at the side the cut removes.
CutSideMatches ==
    \A r \in 1..CutMask.shape[1] : \A j, k \in 1..CutMask.shape[2] :
        j < k => IF args.cut_left
                 THEN CutMask.data[r][k] = 0 => CutMask.data[r][j] = 0
                 ELSE CutMask.data[r][j] = 0 => CutMask.data[r][k] = 0

\* C4: on a batch padded on the side that is cut, cut_to_effective_len returns
\* every named array (of the mask's width) with exactly effective_len columns,
\* and each row of the trimmed attention mask counts as many 1s as before.
C4_TrimKeepsRealTokens ==
    (/\ CutReturned
     /\ CutMask.shape[1] >= 1
     /\ "attention_mask" \in CutKeys
     /\ CutSideMatches)
    => /\ pc = "done"
       /\ \A key \in CutKeys :
            args.tensor_dict[key].shape[2] = CutMask.shape[2]
               => ret[key].shape[2] = CutEffectiveLen
       /\ \A r \in 1..CutMask.shape[1] :
            Sum(ret["attention_mask"].data[r]) = Sum(CutMask.data[r])

\* C5: when every row of the mask is all zeros, effective_len is 0 and every
\* named array is returned with no columns, whichever the cut direction.
C5_AllPadZeroLength ==
    (/\ CutReturned
     /\ CutMask.shape[1] >= 1
     /\ \A r \in 1..CutMask.shape[1] : \A c \in 1..CutMask.shape[2] : CutMask.data[r][c] = 0)
    => /\ pc = "done"
       /\ \A key \in CutKeys : ret[key].shape[2] = 0

\* Some named array is not as wide as the attention mask.
CutMismatch ==
    \E key \in CutKeys : args.tensor_dict[key].shape[2] # CutMask.shape[2]

\* C6 as stated: with a named array whose column count is not the mask's, the
\* call fails and returns nothing.
C6_ShapeMismatchRejected ==
    (CutReturned /\ CutMismatch) => pc = "raised"

\* C6 as the code has it: there is no shape check.  On a non-empty batch with
\* a named array of W columns, W not the mask's width, the call returns, and
\* every named array comes back sliced by its own width: its first
\* min(W, effective_len) columns for cut_left=False, its last
\* min(W, effective_len) columns for cut_left=True and effective_len > 0, and
\* all its W columns for cut_left=True and effective_len = 0.
C6_ShapeMismatchSliced ==
    (CutReturned /\ CutMismatch /\ CutMask.shape[1] >= 1)
    => /\ pc = "done"
       /\ \A key \in CutKeys :
            LET t == args.tensor_dict[key]
                W == t.shape[2]
                e == CutEffectiveLen
                kept == IF args.cut_left /\ e = 0 THEN W ELSE Min(W, e)
            IN /\ ret[key].shape = <<t.shape[1], kept>>
               /\ \A r \in 1..t.shape[1] :
                    /\ DOMAIN ret[key].data[r] = 1..kept
                    /\ \A c \in 1..kept :
                         ret[key].data[r][c] =
                            IF args.cut_left THEN t.data[r][W - kept + c] ELSE t.data[r][c]

\* A two-column mask with one real token per row at most and a one-column
\* input_ids: the call returns input_ids whole.
C6_Witness ==
    /\ op = "cut_to_effective_len"
    /\ pc = "done"
    /\ CutMask.shape = <<2, 2>>
    /\ CutEffectiveLen = 1
    /\ args.tensor_dict["input_ids"].shape = <<2, 1>>
    /\ "input_ids" \in CutKeys
    /\ ret["input_ids"] = args.tensor_dict["input_ids"]

====
